---- MODULE Spec2Model ----
(***************************************************************************)
(* Webhook ingestion of CaseWrite: the Express middleware chain in front   *)
(* of POST /api/webhooks/:type, the raw-body capture, the signature check, *)
(* the dispatch by source type, the three normalizers and the document     *)
(* pipeline they call.                                                     *)
(*                                                                         *)
(* Texts (request bodies, JSON.stringify output) are sequences of tokens:  *)
(* "{" "}" ":" "," a blank " ", the literal "null", the member names of    *)
(* Keys and the member values of Vals.  JSON.parse and JSON.stringify are  *)
(* computed over these sequences.  HMAC-SHA256 is the ideal keyed hash: the *)
(* digest of (key, message) is the pair itself, so two digests are equal   *)
(* exactly when key and message are.                                       *)
(***************************************************************************)
EXTENDS Integers, Sequences, FiniteSets, TLC

VARIABLES
    mounted,      \* "app": the router under the application's global parsers; "router": the router alone
    storageType,  \* config.storage.type
    webhooks,     \* config.webhooks: source type -> secret (empty domain: config.webhooks undefined)
    pc,           \* where the request in flight stands
    params_type,  \* req.params.type
    content_type, \* req.headers['content-type']
    hasBody,      \* the request declares an entity (content-length or transfer-encoding present)
    signature,    \* req.headers['x-webhook-signature']
    wire,         \* the request entity as sent
    stream,       \* the part of the entity the request stream has not delivered yet
    ended,        \* the request stream has emitted 'end'
    data,         \* rawBodyParser's accumulator
    rawBody,      \* req.rawBody
    body,         \* req.body
    verified,     \* outcome of the signature step of processWebhook
    webhookData,  \* the event the normalizer built
    doc,          \* state of processWebhookDocument for the request in flight
    res,          \* the response sent
    sends,        \* number of times a response was sent for the request in flight
    calls,        \* calls of processWebhookDocument for the request in flight
    delivery,     \* number of the delivery in flight
    redelivered,  \* the delivery in flight repeats the previous request
    prevCalls,    \* calls of processWebhookDocument the previous delivery made
    thrown,       \* text of the error thrown inside the route handler for the request in flight
    reqs,         \* the requests in flight at once (concurrent specification)
    bufs,         \* rawBodyParser's accumulators, one per invocation (concurrent specification)
    integration,  \* IntegrationService's enabled and standaloneMode, from config.integration
    ai,           \* AIService's provider and openaiConfig.apiKey, from config.ai
    api           \* the request in flight on the integration, AI or document router

vars == << mounted, storageType, webhooks, pc, params_type, content_type, hasBody, signature,
           wire, stream, ended, data, rawBody, body, verified, webhookData, doc,
           res, sends, calls, delivery, redelivered, prevCalls, thrown, reqs, bufs,
           integration, ai, api >>

-----------------------------------------------------------------------------
(* Bounds *)

\* deliveries of webhook requests in one behaviour
MaxDeliveries == 2

-----------------------------------------------------------------------------
(* JavaScript values *)

Undefined == [t |-> "undefined", m |-> << >>]
Null      == [t |-> "null", m |-> << >>]
Obj(ms)   == [t |-> "object", m |-> ms]
Str(s)    == [t |-> "string", m |-> s]
SyntaxError == [t |-> "SyntaxError", m |-> << >>]

\* member names and member values the texts are written with
\* ("[attachment]" stands for the list [{url, contentType, filename}], "[]" for
\* the empty list)
Keys == {"source", "documentUrl", "attachments"}
Vals == {"email", "u", "[attachment]", "[]"}

\* the absent value of an optional field, header or secret (JavaScript undefined)
NoValue == "<undefined>"

RECURSIVE StripWs(_)
\* the tokens of a text without its insignificant whitespace
StripWs(s) ==
    IF s = << >> THEN << >>
    ELSE IF Head(s) = " " THEN StripWs(Tail(s))
    ELSE << Head(s) >> \o StripWs(Tail(s))

\* tokens k : v , k : v ... form a member list
IsMemberList(s) ==
    \/ s = << >>
    \/ /\ Len(s) % 4 = 3
       /\ \A i \in 1..Len(s) :
            CASE i % 4 = 1 -> s[i] \in Keys
              [] i % 4 = 2 -> s[i] = ":"
              [] i % 4 = 3 -> s[i] \in Vals
              [] OTHER     -> s[i] = ","

RECURSIVE PutMember(_, _, _)
\* obj[k] = v on an object kept as its members in insertion order
PutMember(ms, k, v) ==
    IF ms = << >> THEN << <<k, v>> >>
    ELSE IF Head(ms)[1] = k THEN << <<k, v>> >> \o Tail(ms)
    ELSE << Head(ms) >> \o PutMember(Tail(ms), k, v)

RECURSIVE BuildObject(_, _)
BuildObject(s, ms) ==
    IF s = << >> THEN ms
    ELSE BuildObject(IF Len(s) > 3 THEN SubSeq(s, 5, Len(s)) ELSE << >>,
                     PutMember(ms, s[1], s[3]))

\* JSON.parse(text): a value, or SyntaxError
JSONparse(text) ==
    LET s == StripWs(text) IN
    IF s = << "null" >> THEN Null
    ELSE IF Len(s) >= 2 /\ s[1] = "{" /\ s[Len(s)] = "}"
              /\ IsMemberList(SubSeq(s, 2, Len(s) - 1))
         THEN Obj(BuildObject(SubSeq(s, 2, Len(s) - 1), << >>))
    ELSE SyntaxError

RECURSIVE StringifyMembers(_)
StringifyMembers(ms) ==
    IF ms = << >> THEN << >>
    ELSE << Head(ms)[1], ":", Head(ms)[2] >>
         \o (IF Len(ms) > 1 THEN << "," >> ELSE << >>)
         \o StringifyMembers(Tail(ms))

\* JSON.stringify(value): a string, or undefined for undefined
JSONstringify(v) ==
    CASE v.t = "object" -> Str(<< "{" >> \o StringifyMembers(v.m) \o << "}" >>)
      [] v.t = "null"   -> Str(<< "null" >>)
      [] OTHER          -> Undefined

\* data.k (data?.k): the member's value, undefined when the object has no such member
Prop(v, k) ==
    IF \E i \in 1..Len(v.m) : v.m[i][1] = k
    THEN LET i == CHOOSE j \in 1..Len(v.m) : v.m[j][1] = k IN v.m[i][2]
    ELSE NoValue

-----------------------------------------------------------------------------
(* Signatures *)

\* length of hmac.digest('hex') for sha256
DigestHexLen == 64

\* a header value: absent, a hex HMAC-SHA256 digest, or some other text
NoSignature    == [t |-> "absent", key |-> "", msg |-> << >>, len |-> 0]
HmacHex(k, m)  == [t |-> "hmac", key |-> k, msg |-> m, len |-> DigestHexLen]
ShortSignature == [t |-> "text", key |-> "", msg |-> << >>, len |-> 5]

\* crypto.timingSafeEqual(Buffer.from(a), Buffer.from(b)): throws on buffers of
\* different length, otherwise compares every byte
TimingSafeEqual(a, b) ==
    IF a.len # b.len THEN "throw"
    ELSE IF a = b THEN "true" ELSE "false"

\* the try block of verifySignature: "true", "false", or "throw" when a call in it throws
VerifySignatureTry(sig, reqBody, secret) ==
    IF sig.t = "absent" THEN "false"
    ELSE LET text == JSONstringify(reqBody) IN
         IF text = Undefined THEN "throw"     \* hmac.update(undefined): TypeError
         ELSE TimingSafeEqual(HmacHex(secret, text.m), sig)

\* variant: verifySignature without its try/catch
VerifySignatureNoCatch(sig, reqBody, secret) == VerifySignatureTry(sig, reqBody, secret)

\* verifySignature(req, secret): every error inside is caught and answered false
VerifySignature(sig, reqBody, secret) ==
    LET r == VerifySignatureTry(sig, reqBody, secret) IN
    IF r = "throw" THEN "false" ELSE r

-----------------------------------------------------------------------------
(* Configuration *)

\* config.webhooks?.[type]?.secret
SecretOf(cfg, type) == IF type \in DOMAIN cfg THEN cfg[type] ELSE NoValue

\* a JavaScript string used as a condition
Truthy(s) == s # NoValue /\ s # ""

-----------------------------------------------------------------------------
(* Normalizers *)

NoEvent == [source |-> NoValue, documentUrl |-> NoValue, documentType |-> NoValue,
            metadata |-> << >>]

\* variant: a ?? b, which keeps an empty string
OrElseNullish(a, b) == IF a # NoValue THEN a ELSE b

\* a || b on strings
OrElse(a, b) == IF Truthy(a) THEN a ELSE b

\* the attachments the lists are written with
Attachment  == [url |-> "u", contentType |-> "text/plain", filename |-> "f.txt"]
Attachment2 == [url |-> "u2", contentType |-> "image/png", filename |-> "g.png"]

\* the elements of data.attachments, none when the member is absent or no list
AttachmentsOf(v) ==
    CASE v = "[attachment]"             -> << Attachment >>
      [] v = "[attachment,attachment2]" -> << Attachment, Attachment2 >>
      [] v = "[attachment2,attachment]" -> << Attachment2, Attachment >>
      [] OTHER                          -> << >>

\* variant: the fields of the last attachment
FirstAttachmentLast(d, f) ==
    LET list == AttachmentsOf(Prop(d, "attachments")) IN
    IF list = << >> THEN NoValue ELSE list[Len(list)][f]

\* data.attachments?.[0]?.f
FirstAttachment(d, f) ==
    LET list == AttachmentsOf(Prop(d, "attachments")) IN
    IF list = << >> THEN NoValue ELSE list[1][f]

\* variant: the handlers read data.attachments[0] without optional chaining, which
\* throws when there is no first attachment
ReadableWithAttachment(d) ==
    d.t = "object" /\ AttachmentsOf(Prop(d, "attachments")) # << >>

\* reading a property of undefined or null throws a TypeError
Readable(d) == d.t = "object"

\* the webhookData handleEmailWebhook builds
EmailWebhookData(d) ==
    [source       |-> "email",
     documentUrl  |-> FirstAttachment(d, "url"),
     documentType |-> FirstAttachment(d, "contentType"),
     metadata     |-> [filename   |-> FirstAttachment(d, "filename"),
                       sender     |-> Prop(d, "sender"),
                       subject    |-> Prop(d, "subject"),
                       receivedAt |-> Prop(d, "receivedAt"),
                       emailId    |-> Prop(d, "emailId")]]

\* the webhookData handleScannerWebhook builds
ScannerWebhookData(d) ==
    [source       |-> "scanner",
     documentUrl  |-> Prop(d, "documentUrl"),
     documentType |-> OrElse(Prop(d, "documentType"), "application/pdf"),
     metadata     |-> [filename   |-> Prop(d, "filename"),
                       scannedBy  |-> Prop(d, "scannedBy"),
                       scannedAt  |-> Prop(d, "scannedAt"),
                       deviceId   |-> Prop(d, "deviceId"),
                       resolution |-> Prop(d, "resolution")]]

\* variant: the external handler with the scanner handler's default type
ExternalWebhookDataDefaultType(d) ==
    [source       |-> OrElse(Prop(d, "source"), "external"),
     documentUrl  |-> Prop(d, "documentUrl"),
     documentType |-> OrElse(Prop(d, "documentType"), "application/pdf"),
     metadata     |-> [filename       |-> Prop(d, "filename"),
                       externalId     |-> Prop(d, "externalId"),
                       externalSystem |-> Prop(d, "externalSystem"),
                       createdAt      |-> Prop(d, "createdAt"),
                       createdBy      |-> Prop(d, "createdBy"),
                       additionalData |-> Prop(d, "additionalData")]]

\* the webhookData handleExternalSystemWebhook builds
ExternalWebhookData(d) ==
    [source       |-> OrElse(Prop(d, "source"), "external"),
     documentUrl  |-> Prop(d, "documentUrl"),
     documentType |-> Prop(d, "documentType"),
     metadata     |-> [filename       |-> Prop(d, "filename"),
                       externalId     |-> Prop(d, "externalId"),
                       externalSystem |-> Prop(d, "externalSystem"),
                       createdAt      |-> Prop(d, "createdAt"),
                       createdBy      |-> Prop(d, "createdBy"),
                       additionalData |-> Prop(d, "additionalData")]]

SupportedTypes == {"email", "scanner", "external"}

\* variant: the switch with the external handler as its default case
HandlerOfDefaultExternal(type) ==
    CASE type = "email"    -> "handleEmailWebhook"
      [] type = "scanner"  -> "handleScannerWebhook"
      [] OTHER             -> "handleExternalSystemWebhook"

\* the switch of processWebhook: the handler of the case the type matches exactly
HandlerOf(type) ==
    CASE type = "email"    -> "handleEmailWebhook"
      [] type = "scanner"  -> "handleScannerWebhook"
      [] type = "external" -> "handleExternalSystemWebhook"
      [] OTHER             -> "default"

WebhookDataOf(handler, d) ==
    CASE handler = "handleEmailWebhook"   -> EmailWebhookData(d)
      [] handler = "handleScannerWebhook" -> ScannerWebhookData(d)
      [] OTHER                            -> ExternalWebhookData(d)

HandlerLabel(handler) ==
    CASE handler = "handleEmailWebhook"   -> "email"
      [] handler = "handleScannerWebhook" -> "scanner"
      [] OTHER                            -> "external system"

-----------------------------------------------------------------------------
(* Responses *)

NoResult == [success |-> FALSE, documentId |-> NoValue, source |-> NoValue,
             processingResult |-> NoValue]

NoResponse == [status |-> 0, message |-> NoValue, errorStatus |-> 0, result |-> NoResult]

\* variant: the body always reports status 500
ErrorResponseBody500(code, msg, st) ==
    [status |-> code, message |-> msg, errorStatus |-> 500, result |-> NoResult]

\* res.status(code).json({error: {message, status}})
ErrorResponse(code, msg, st) ==
    [status |-> code, message |-> msg, errorStatus |-> st, result |-> NoResult]

\* variant: the handler answers with a summary of the result
ResultResponseSummary(r) ==
    [status |-> 200, message |-> NoValue, errorStatus |-> 0,
     result |-> [r EXCEPT !.processingResult = NoValue]]

\* res.json(result)
ResultResponse(r) == [status |-> 200, message |-> NoValue, errorStatus |-> 0, result |-> r]

-----------------------------------------------------------------------------
(* processWebhook up to its first await *)

\* variant: the signature step without the test for a configured secret
SignatureStepNoBypass(type, sig, reqBody, cfg) ==
    IF VerifySignature(sig, reqBody, SecretOf(cfg, type)) = "true"
    THEN "passed" ELSE "failed"

\* the signature step: "skipped" without a secret, else "passed" or "failed",
\* or "threw" if verifySignature let an error out
SignatureStep(type, sig, reqBody, cfg) ==
    LET webhookSecret == SecretOf(cfg, type) IN
    IF ~Truthy(webhookSecret) THEN "skipped"
    ELSE LET v == VerifySignature(sig, reqBody, webhookSecret) IN
         CASE v = "true"  -> "passed"
           [] v = "false" -> "failed"
           [] OTHER       -> "threw"

\* variant: processWebhook without the return in front of its 401 answer, so a
\* failed signature step falls through to the switch
ProcessWebhookNoReturn(type, sig, reqBody, cfg) ==
    LET step    == SignatureStep(type, sig, reqBody, cfg)
        handler == HandlerOf(type)
    IN
    CASE step = "threw" ->
           [kind |-> "respond", verified |-> step, event |-> NoEvent,
            thrown |-> "RangeError",
            response |-> ErrorResponse(500, "RangeError", 500)]
      [] handler = "default" ->
           [kind |-> "respond", verified |-> step, event |-> NoEvent,
            thrown |-> NoValue,
            response |-> ErrorResponse(400, "Unsupported webhook type: " \o type, 400)]
      [] ~Readable(reqBody) ->
           [kind |-> "respond", verified |-> step, event |-> NoEvent,
            thrown |-> "TypeError",
            response |-> ErrorResponse(500,
                "Failed to handle " \o HandlerLabel(handler) \o " webhook: TypeError", 500)]
      [] OTHER ->
           [kind |-> "call", verified |-> step, event |-> WebhookDataOf(handler, reqBody),
            thrown |-> NoValue, response |-> NoResponse]

\* what processWebhook does before it first awaits: [kind |-> "respond"] with the
\* response it sends, or [kind |-> "call"] with the webhookData it hands to
\* documentService.processWebhookDocument
ProcessWebhook(type, sig, reqBody, cfg) ==
    LET step    == SignatureStep(type, sig, reqBody, cfg)
        handler == HandlerOf(type)
    IN
    CASE step = "failed" ->
           [kind |-> "respond", verified |-> step, event |-> NoEvent,
            thrown |-> NoValue,
            response |-> ErrorResponse(401, "Invalid webhook signature", 401)]
      [] step = "threw" ->
           [kind |-> "respond", verified |-> step, event |-> NoEvent,
            thrown |-> "RangeError",
            response |-> ErrorResponse(500, "RangeError", 500)]
      [] handler = "default" ->
           [kind |-> "respond", verified |-> step, event |-> NoEvent,
            thrown |-> NoValue,
            response |-> ErrorResponse(400, "Unsupported webhook type: " \o type, 400)]
      [] ~Readable(reqBody) ->
           [kind |-> "respond", verified |-> step, event |-> NoEvent,
            thrown |-> "TypeError",
            response |-> ErrorResponse(500,
                "Failed to handle " \o HandlerLabel(handler) \o " webhook: TypeError", 500)]
      [] OTHER ->
           [kind |-> "call", verified |-> step, event |-> WebhookDataOf(handler, reqBody),
            thrown |-> NoValue, response |-> NoResponse]

-----------------------------------------------------------------------------
(* Requests and deployments *)

AllTypes == SupportedTypes \cup {"fax"}

ContentTypes == {"application/json", "text/plain"}

Secrets == {"s1"}

\* config.webhooks: undefined, a secret for one source, for every path segment,
\* or an empty secret
Configs ==
    { [t \in {} |-> ""],
      [t \in {"email"} |-> "s1"],
      [t \in AllTypes |-> "s1"],
      [t \in {"email"} |-> ""] }

StorageTypes == {"local", "s3"}

\* the JSON text of an object, with or without a blank after the opening brace
Render(ms, blank) ==
    << "{" >> \o (IF blank THEN << " " >> ELSE << >>) \o StringifyMembers(ms) \o << "}" >>

MemberLists ==
    { << >>,
      << <<"source", "email">> >>,
      << <<"documentUrl", "u">> >>,
      << <<"attachments", "[attachment]">> >>,
      << <<"attachments", "[]">> >> }

\* request entities: object texts, the text null, a truncated text, no entity
WireBodies ==
    { Render(ms, blank) : ms \in MemberLists, blank \in BOOLEAN }
        \cup { << "null" >>, << "{" >>, << >> }

\* header values: none, a text of another length, a digest under a configured
\* secret of some entity, a digest under a key nobody configured
Signatures ==
    { NoSignature, ShortSignature, HmacHex("other", << "{", "}" >>) }
        \cup { HmacHex(k, m) : k \in Secrets, m \in WireBodies }

NoDoc == [downloaded |-> FALSE, uploads |-> 0, documentId |-> NoValue,
          processing |-> NoValue]

\* config.integration and config.ai when the environment sets none of their
\* variables
DefaultIntegration == [enabled |-> FALSE, standaloneMode |-> FALSE]
DefaultAi == [provider |-> "openai", apiKey |-> ""]

\* no request on the integration, AI or document router
NoApi == [router |-> "none", path |-> NoValue, body |-> << >>, pc |-> "idle", at |-> 0,
          gate |-> "none", validated |-> FALSE, invoked |-> NoValue, outbound |-> 0,
          thrown |-> NoValue, status |-> 0, message |-> NoValue, result |-> NoValue]

-----------------------------------------------------------------------------
(* Initial state: the process has started, no request has arrived *)

Init ==
    /\ mounted \in {"app", "router"}
    /\ storageType \in StorageTypes
    /\ webhooks \in Configs
    /\ pc = "idle"
    /\ params_type = NoValue
    /\ content_type = NoValue
    /\ hasBody = FALSE
    /\ signature = NoSignature
    /\ wire = << >>
    /\ stream = << >>
    /\ ended = FALSE
    /\ data = << >>
    /\ rawBody = Undefined
    /\ body = Undefined
    /\ verified = "none"
    /\ webhookData = NoEvent
    /\ doc = NoDoc
    /\ res = NoResponse
    /\ sends = 0
    /\ calls = 0
    /\ delivery = 0
    /\ redelivered = FALSE
    /\ prevCalls = 0
    /\ thrown = NoValue
    /\ integration = DefaultIntegration
    /\ ai = DefaultAi
    /\ api = NoApi
    /\ reqs = << >>
    /\ bufs = << >>

\* variant: the configuration is read again for every request, from config.js,
\* which has no webhooks key
ArriveReadingConfig(type, ct, hb, sig, w) ==
    /\ params_type' = type
    /\ content_type' = ct
    /\ hasBody' = hb
    /\ signature' = sig
    /\ wire' = w
    /\ stream' = w
    /\ ended' = FALSE
    /\ data' = << >>
    /\ rawBody' = Undefined
    /\ body' = Undefined
    /\ verified' = "none"
    /\ webhookData' = NoEvent
    /\ doc' = NoDoc
    /\ res' = NoResponse
    /\ sends' = 0
    /\ calls' = 0
    /\ prevCalls' = calls
    /\ thrown' = NoValue
    /\ delivery' = delivery + 1
    /\ pc' = IF mounted = "app" THEN "express.json" ELSE "rawBodyParser"
    /\ webhooks' = [t \in {} |-> ""]
    /\ UNCHANGED << integration, ai, api, reqs, bufs, mounted, storageType >>

\* the request enters the middleware chain
Arrive(type, ct, hb, sig, w) ==
    /\ params_type' = type
    /\ content_type' = ct
    /\ hasBody' = hb
    /\ signature' = sig
    /\ wire' = w
    /\ stream' = w
    /\ ended' = FALSE
    /\ data' = << >>
    /\ rawBody' = Undefined
    /\ body' = Undefined
    /\ verified' = "none"
    /\ webhookData' = NoEvent
    /\ doc' = NoDoc
    /\ res' = NoResponse
    /\ sends' = 0
    /\ calls' = 0
    /\ prevCalls' = calls
    /\ thrown' = NoValue
    /\ delivery' = delivery + 1
    /\ pc' = IF mounted = "app" THEN "express.json" ELSE "rawBodyParser"
    /\ UNCHANGED << integration, ai, api, reqs, bufs, mounted, storageType, webhooks >>

\* a sender posts a webhook
Receive ==
    /\ pc = "idle"
    /\ delivery < MaxDeliveries
    /\ \E type \in AllTypes, ct \in ContentTypes, sig \in Signatures,
          w \in WireBodies, hb \in BOOLEAN :
          /\ w # << >> => hb
          /\ Arrive(type, ct, hb, sig, w)
    /\ redelivered' = FALSE

\* a sender posts the request it posted before once more
Redeliver ==
    /\ pc = "responded"
    /\ delivery < MaxDeliveries
    /\ Arrive(params_type, content_type, hasBody, signature, wire)
    /\ redelivered' = TRUE

-----------------------------------------------------------------------------
(* The middleware chain *)

\* variant: the handler does not return after its first answer
SendAndGoOn(r) ==
    /\ res' = r
    /\ sends' = sends + 1
    /\ pc' = IF sends = 0 THEN pc ELSE "responded"

\* the response leaves: res.status(..).json(..) or res.json(..)
Send(r) ==
    /\ res' = r
    /\ sends' = sends + 1
    /\ pc' = "responded"

\* express.json() as the application mounts it, in front of every route: a request
\* of type application/json that declares an entity has its stream read to the end
\* (consumed) and parsed (strict: the text must open an object or an array); a
\* text that does not parse goes to the application's error middleware, which
\* answers 400; any other request passes with req.body = {} (body-parser 1.x,
\* Express 4).  The other global middleware (cors, urlencoded for form bodies,
\* session, the request logger) leaves a webhook request of the content types
\* modelled as it is.
ExpressJsonParse(ct, hb, w) ==
    IF ct = "application/json" /\ hb
    THEN LET text   == StripWs(w)
             parsed == JSONparse(w)
         IN
         IF w = << >>
         THEN [kind |-> "next", consumed |-> TRUE, body |-> Obj(<< >>),
               response |-> NoResponse]
         ELSE IF text = << >> \/ Head(text) # "{" \/ parsed = SyntaxError
         THEN [kind |-> "respond", consumed |-> TRUE, body |-> Undefined,
               response |-> ErrorResponse(400, "SyntaxError", 400)]
         ELSE [kind |-> "next", consumed |-> TRUE, body |-> parsed,
               response |-> NoResponse]
    ELSE [kind |-> "next", consumed |-> FALSE, body |-> Obj(<< >>),
          response |-> NoResponse]

\* the request in flight passes express.json()
ExpressJson ==
    /\ pc = "express.json"
    /\ LET out == ExpressJsonParse(content_type, hasBody, wire) IN
       /\ IF out.consumed
          THEN stream' = << >> /\ ended' = TRUE
          ELSE UNCHANGED << stream, ended >>
       /\ IF out.kind = "respond"
          THEN Send(out.response) /\ UNCHANGED body
          ELSE /\ body' = out.body
               /\ pc' = "rawBodyParser"
               /\ UNCHANGED << res, sends >>
    /\ UNCHANGED << integration, ai, api, reqs, bufs, mounted, storageType, webhooks, params_type, content_type, hasBody,
                    signature, wire, data, rawBody, verified, webhookData, doc,
                    calls, delivery, redelivered, prevCalls, thrown >>

\* rawBodyParser's 'data' listener: the stream delivers its next chunk
RawBodyData ==
    /\ pc = "rawBodyParser"
    /\ stream # << >>
    /\ \E n \in 1..Len(stream) :
          /\ data' = data \o SubSeq(stream, 1, n)
          /\ stream' = SubSeq(stream, n + 1, Len(stream))
    /\ UNCHANGED << integration, ai, api, reqs, bufs, mounted, storageType, webhooks, pc, params_type, content_type,
                    hasBody, signature, wire, ended, rawBody, body, verified,
                    webhookData, doc, res, sends, calls, delivery, redelivered,
                    prevCalls, thrown >>

\* rawBodyParser's 'end' listener: the stream, read to its end by this listener's
\* own reading, emits 'end' once; req.rawBody is set and next() runs the route
RawBodyEnd ==
    /\ pc = "rawBodyParser"
    /\ stream = << >>
    /\ ~ended
    /\ ended' = TRUE
    /\ rawBody' = Str(data)
    /\ pc' = "route"
    /\ UNCHANGED << integration, ai, api, reqs, bufs, mounted, storageType, webhooks, params_type, content_type, hasBody,
                    signature, wire, stream, data, body, verified, webhookData, doc,
                    res, sends, calls, delivery, redelivered, prevCalls, thrown >>

\* req.body after the route's parsing step: JSON.parse(req.rawBody) for a request
\* whose content type is exactly application/json, otherwise what it was
RouteBody(ct, raw, reqBody) ==
    IF ct = "application/json" THEN JSONparse(raw.m) ELSE reqBody

\* the handler of POST /:type, down to the first await inside processWebhook
RouteHandler ==
    /\ pc = "route"
    /\ LET parsed == RouteBody(content_type, rawBody, body) IN
       IF parsed = SyntaxError
       THEN /\ Send(ErrorResponse(500, "SyntaxError", 500))
            /\ thrown' = "SyntaxError"
            /\ UNCHANGED << body, verified, webhookData, calls >>
       ELSE LET out == ProcessWebhook(params_type, signature, parsed, webhooks) IN
            /\ body' = parsed
            /\ verified' = out.verified
            /\ thrown' = out.thrown
            /\ IF out.kind = "respond"
               THEN /\ Send(out.response)
                    /\ UNCHANGED << webhookData, calls >>
               ELSE /\ webhookData' = out.event
                    /\ calls' = calls + 1
                    /\ pc' = IF Truthy(out.event.documentUrl)
                             THEN "axios.get" ELSE "uploadDocument"
                    /\ UNCHANGED << res, sends >>
    /\ UNCHANGED << integration, ai, api, reqs, bufs, mounted, storageType, webhooks, params_type, content_type, hasBody,
                    signature, wire, stream, ended, data, rawBody, doc, delivery,
                    redelivered, prevCalls >>

-----------------------------------------------------------------------------
(* documentService.processWebhookDocument *)

\* processWebhookDocument rethrows with its prefix, the handler of the type with
\* its own, and processWebhook's catch answers 500 with the message
HandlerFailure(type, cause) ==
    ErrorResponse(500,
        "Failed to handle " \o HandlerLabel(HandlerOf(type))
            \o " webhook: Failed to process webhook document: " \o cause, 500)

\* variant: the catch answers with a fixed text
PipelineFailureGeneric(cause) ==
    ErrorResponse(500, "Internal Server Error", 500)

\* an error of the pipeline as it reaches the response: processWebhookDocument and
\* the handler each prefix the message, processWebhook's catch answers 500
PipelineFailure(cause) == HandlerFailure(params_type, cause)

\* variant: every source is parsed without options
ProcessingOfParseOnly(source) == "parseDocument"

\* the processing operation chosen by the event's source
ProcessingOf(source) ==
    CASE source = "email"   -> "parseDocument{source:email}"
      [] source = "scanner" -> "processOcr{source:scanner}"
      [] OTHER              -> "parseDocument"

\* the object processWebhookDocument returns (its timestamp left out)
PipelineResult(documentId, source) ==
    [success |-> TRUE, documentId |-> documentId, source |-> source,
     processingResult |-> ProcessingOf(source)]

\* variant: a failed fetch makes the handler call the pipeline again
AxiosGetRetry ==
    /\ pc = "axios.get"
    /\ \/ /\ doc' = [doc EXCEPT !.downloaded = TRUE]
          /\ pc' = "uploadDocument"
          /\ UNCHANGED << res, sends, calls, thrown >>
       \/ /\ calls < 2
          /\ calls' = calls + 1
          /\ UNCHANGED << doc, pc, res, sends, thrown >>
       \/ /\ Send(PipelineFailure("download"))
          /\ thrown' = "download"
          /\ UNCHANGED << doc, calls >>
    /\ UNCHANGED << integration, ai, api, reqs, bufs, mounted, storageType, webhooks, params_type, content_type, hasBody,
                    signature, wire, stream, ended, data, rawBody, body, verified,
                    webhookData, delivery, redelivered, prevCalls >>

\* await axios.get(documentUrl): the document arrives, or the fetch fails
AxiosGet ==
    /\ pc = "axios.get"
    /\ \/ /\ doc' = [doc EXCEPT !.downloaded = TRUE]
          /\ pc' = "uploadDocument"
          /\ UNCHANGED << res, sends, thrown >>
       \/ /\ Send(PipelineFailure("download"))
          /\ thrown' = "download"
          /\ UNCHANGED doc
    /\ UNCHANGED << integration, ai, api, reqs, bufs, mounted, storageType, webhooks, params_type, content_type, hasBody,
                    signature, wire, stream, ended, data, rawBody, body, verified,
                    webhookData, calls, delivery, redelivered, prevCalls >>

\* variant: a failed upload is ignored and the processing step runs
UploadDocumentIgnoringFailure ==
    /\ pc = "uploadDocument"
    /\ \/ /\ storageType = "local" => doc.downloaded
          /\ doc' = [doc EXCEPT !.uploads = @ + 1, !.documentId = "uuid"]
          /\ pc' = "processing"
          /\ UNCHANGED << res, sends, thrown >>
       \/ /\ pc' = "processing"
          /\ UNCHANGED << doc, res, sends, thrown >>
    /\ UNCHANGED << integration, ai, api, reqs, bufs, mounted, storageType, webhooks, params_type, content_type, hasBody,
                    signature, wire, stream, ended, data, rawBody, body, verified,
                    webhookData, calls, delivery, redelivered, prevCalls >>

\* await this.uploadDocument(file, metadata): local storage writes file.buffer,
\* which fs.writeFile refuses when nothing was downloaded; the store may fail
UploadDocument ==
    /\ pc = "uploadDocument"
    /\ \/ /\ storageType = "local" => doc.downloaded
          /\ doc' = [doc EXCEPT !.uploads = @ + 1, !.documentId = "uuid"]
          /\ pc' = "processing"
          /\ UNCHANGED << res, sends, thrown >>
       \/ /\ Send(PipelineFailure("Failed to upload document"))
          /\ thrown' = "Failed to upload document"
          /\ UNCHANGED doc
    /\ UNCHANGED << integration, ai, api, reqs, bufs, mounted, storageType, webhooks, params_type, content_type, hasBody,
                    signature, wire, stream, ended, data, rawBody, body, verified,
                    webhookData, calls, delivery, redelivered, prevCalls >>

\* the processing step (parseDocument and processOcr return fixed data), the
\* result returned through the handler, and res.json(result)
Processing ==
    /\ pc = "processing"
    /\ LET op == ProcessingOf(webhookData.source) IN
       /\ doc' = [doc EXCEPT !.processing = op]
       /\ Send(ResultResponse(PipelineResult(doc.documentId, webhookData.source)))
    /\ UNCHANGED << integration, ai, api, reqs, bufs, mounted, storageType, webhooks, params_type, content_type, hasBody,
                    signature, wire, stream, ended, data, rawBody, body, verified,
                    webhookData, calls, delivery, redelivered, prevCalls, thrown >>

-----------------------------------------------------------------------------
(* Specifications *)

\* a step of the request in flight
Handle ==
    \/ ExpressJson
    \/ RawBodyData
    \/ RawBodyEnd
    \/ RouteHandler
    \/ AxiosGet
    \/ UploadDocument
    \/ Processing

Next ==
    \/ Receive
    \/ Redeliver
    \/ ExpressJson
    \/ RawBodyData
    \/ RawBodyEnd
    \/ RouteHandler
    \/ AxiosGet
    \/ UploadDocument
    \/ Processing

Spec == Init /\ [][Next]_vars

\* the event loop runs every callback that is ready and every awaited promise settles
FairSpec == Spec /\ WF_vars(Handle)

-----------------------------------------------------------------------------
(* The handlers called with a body of their own *)

\* the fields the three kinds of body are documented with, and two each handler
\* does not read
EmailFields   == << "attachments", "sender", "subject", "receivedAt", "emailId",
                   "documentUrl", "documentType" >>
ScannerFields == << "documentUrl", "documentType", "filename", "scannedBy",
                   "scannedAt", "deviceId", "resolution", "source" >>
ExternalFields == << "source", "documentUrl", "documentType", "filename",
                    "externalId", "externalSystem", "createdAt", "createdBy",
                    "additionalData" >>

\* the values a field is given: NoValue for a field left out, the empty string
\* for the two fields a handler defaults, otherwise a text of the field's own
FieldValues(k) ==
    CASE k = "attachments"  -> { NoValue, "[]", "[attachment]",
                                 "[attachment,attachment2]", "[attachment2,attachment]" }
      [] k = "documentType" -> { NoValue, "", "image/png" }
      [] k = "source"       -> { NoValue, "", "crm" }
      [] OTHER              -> { NoValue, k \o "-value" }

RECURSIVE MembersOver(_)
\* the member lists over the fields, in the fields' order
MembersOver(fields) ==
    IF fields = << >> THEN { << >> }
    ELSE { (IF v = NoValue THEN << >> ELSE << << Head(fields), v >> >>) \o rest :
              v \in FieldValues(Head(fields)), rest \in MembersOver(Tail(fields)) }

HandlerBodies ==
    { Obj(ms) : ms \in MembersOver(EmailFields) \cup MembersOver(ScannerFields)
                          \cup MembersOver(ExternalFields) }

\* a handler is about to be called with the parsed body of a request of its type
HandlerInit ==
    /\ mounted = "router"
    /\ storageType = "local"
    /\ webhooks = [t \in {} |-> ""]
    /\ pc = "handler"
    /\ params_type \in SupportedTypes
    /\ content_type = "application/json"
    /\ hasBody = TRUE
    /\ signature = NoSignature
    /\ wire = << >>
    /\ stream = << >>
    /\ ended = TRUE
    /\ data = << >>
    /\ rawBody = Undefined
    /\ body \in HandlerBodies
    /\ verified = "skipped"
    /\ webhookData = NoEvent
    /\ doc = NoDoc
    /\ res = NoResponse
    /\ sends = 0
    /\ calls = 0
    /\ delivery = 1
    /\ redelivered = FALSE
    /\ prevCalls = 0
    /\ thrown = NoValue
    /\ integration = DefaultIntegration
    /\ ai = DefaultAi
    /\ api = NoApi
    /\ reqs = << >>
    /\ bufs = << >>

\* handleEmailWebhook, handleScannerWebhook or handleExternalSystemWebhook builds
\* webhookData from data and calls documentService.processWebhookDocument with it
CallHandler ==
    /\ pc = "handler"
    /\ webhookData' = WebhookDataOf(HandlerOf(params_type), body)
    /\ calls' = calls + 1
    /\ pc' = "processWebhookDocument"
    /\ UNCHANGED << integration, ai, api, reqs, bufs, mounted, storageType, webhooks, params_type, content_type,
                    hasBody, signature, wire, stream, ended, data, rawBody, body,
                    verified, doc, res, sends, delivery, redelivered, prevCalls,
                    thrown >>

HandlerNext == CallHandler

HandlerSpec == HandlerInit /\ [][HandlerNext]_vars

-----------------------------------------------------------------------------
(* Several requests in flight at once *)

MaxConcurrent == 2

Ids == 1..MaxConcurrent

\* the requests the senders post: a signed scanner webhook with a document to
\* fetch, an email webhook, a webhook of an unsupported type sent as text, and an
\* external webhook with a truncated body
ConcurrentRequests ==
    { [type |-> "scanner", ct |-> "application/json", hb |-> TRUE,
       wire |-> Render(<< <<"documentUrl", "u">> >>, FALSE),
       sig  |-> HmacHex("s1", Render(<< <<"documentUrl", "u">> >>, FALSE))],
      [type |-> "email", ct |-> "application/json", hb |-> TRUE,
       wire |-> Render(<< >>, TRUE), sig |-> NoSignature],
      [type |-> "fax", ct |-> "text/plain", hb |-> TRUE,
       wire |-> Render(<< >>, FALSE), sig |-> NoSignature],
      [type |-> "external", ct |-> "application/json", hb |-> TRUE,
       wire |-> << "{" >>, sig |-> NoSignature] }

\* req and res of a request as it enters the middleware chain
NewRequest(in, first) ==
    [type |-> in.type, ct |-> in.ct, hb |-> in.hb, sig |-> in.sig, wire |-> in.wire,
     stream |-> in.wire, ended |-> FALSE, rawBody |-> Undefined, body |-> Undefined,
     verified |-> "none", event |-> NoEvent, downloaded |-> FALSE,
     documentId |-> NoValue, thrown |-> NoValue, res |-> NoResponse, sends |-> 0,
     calls |-> 0, pc |-> first]

\* variant: data declared at module level, one string for every invocation
AccumulatorShared(i) == 1

\* let data = '' inside rawBodyParser: each invocation has a string of its own
Accumulator(i) == i

ConcurrentInit ==
    /\ mounted \in {"app", "router"}
    /\ storageType \in StorageTypes
    /\ webhooks \in { [t \in {} |-> ""], [t \in AllTypes |-> "s1"] }
    /\ pc = "idle"
    /\ params_type = NoValue
    /\ content_type = NoValue
    /\ hasBody = FALSE
    /\ signature = NoSignature
    /\ wire = << >>
    /\ stream = << >>
    /\ ended = FALSE
    /\ data = << >>
    /\ rawBody = Undefined
    /\ body = Undefined
    /\ verified = "none"
    /\ webhookData = NoEvent
    /\ doc = NoDoc
    /\ res = NoResponse
    /\ sends = 0
    /\ calls = 0
    /\ delivery = 0
    /\ redelivered = FALSE
    /\ prevCalls = 0
    /\ thrown = NoValue
    /\ integration = DefaultIntegration
    /\ ai = DefaultAi
    /\ api = NoApi
    /\ reqs \in [Ids -> { NewRequest(in, IF mounted = "app" THEN "express.json"
                                                           ELSE "rawBodyParser") :
                            in \in ConcurrentRequests }]
    /\ bufs = [i \in Ids |-> << >>]

\* what no step of a concurrent request touches
Process == << integration, ai, api, mounted, storageType, webhooks, pc, params_type, content_type, hasBody,
             signature, wire, stream, ended, data, rawBody, body, verified,
             webhookData, doc, res, sends, calls, delivery, redelivered, prevCalls,
             thrown >>

\* res.status(..).json(..) or res.json(..) on the response of request r
SendOf(r, response) ==
    [r EXCEPT !.res = response, !.sends = @ + 1, !.pc = "responded"]

\* request i passes express.json()
ConcurrentExpressJson(i) ==
    LET r   == reqs[i]
        out == ExpressJsonParse(r.ct, r.hb, r.wire)
        r1  == IF out.consumed THEN [r EXCEPT !.stream = << >>, !.ended = TRUE] ELSE r
    IN
    /\ r.pc = "express.json"
    /\ reqs' = [reqs EXCEPT ![i] =
                  IF out.kind = "respond" THEN SendOf(r1, out.response)
                  ELSE [r1 EXCEPT !.body = out.body, !.pc = "rawBodyParser"]]
    /\ UNCHANGED << bufs, Process >>

\* rawBodyParser's 'data' listener of request i
ConcurrentRawBodyData(i) ==
    LET r == reqs[i] IN
    /\ r.pc = "rawBodyParser"
    /\ r.stream # << >>
    /\ \E n \in 1..Len(r.stream) :
          /\ bufs' = [bufs EXCEPT ![Accumulator(i)] = @ \o SubSeq(r.stream, 1, n)]
          /\ reqs' = [reqs EXCEPT ![i].stream = SubSeq(r.stream, n + 1, Len(r.stream))]
    /\ UNCHANGED Process

\* rawBodyParser's 'end' listener of request i
ConcurrentRawBodyEnd(i) ==
    LET r == reqs[i] IN
    /\ r.pc = "rawBodyParser"
    /\ r.stream = << >>
    /\ ~r.ended
    /\ reqs' = [reqs EXCEPT ![i] = [r EXCEPT !.ended = TRUE,
                                             !.rawBody = Str(bufs[Accumulator(i)]),
                                             !.pc = "route"]]
    /\ UNCHANGED << bufs, Process >>

\* the handler of POST /:type for request i, down to the first await
ConcurrentRouteHandler(i) ==
    LET r      == reqs[i]
        parsed == RouteBody(r.ct, r.rawBody, r.body)
        out    == ProcessWebhook(r.type, r.sig, parsed, webhooks)
    IN
    /\ r.pc = "route"
    /\ reqs' = [reqs EXCEPT ![i] =
          IF parsed = SyntaxError
          THEN SendOf([r EXCEPT !.thrown = "SyntaxError"],
                      ErrorResponse(500, "SyntaxError", 500))
          ELSE LET r1 == [r EXCEPT !.body = parsed, !.verified = out.verified,
                                   !.thrown = out.thrown]
               IN
               IF out.kind = "respond" THEN SendOf(r1, out.response)
               ELSE [r1 EXCEPT !.event = out.event, !.calls = @ + 1,
                               !.pc = IF Truthy(out.event.documentUrl)
                                      THEN "axios.get" ELSE "uploadDocument"]]
    /\ UNCHANGED << bufs, Process >>

\* await axios.get(documentUrl) of request i
ConcurrentAxiosGet(i) ==
    LET r == reqs[i] IN
    /\ r.pc = "axios.get"
    /\ \/ reqs' = [reqs EXCEPT ![i] = [r EXCEPT !.downloaded = TRUE,
                                                !.pc = "uploadDocument"]]
       \/ reqs' = [reqs EXCEPT ![i] = SendOf([r EXCEPT !.thrown = "download"],
                                             HandlerFailure(r.type, "download"))]
    /\ UNCHANGED << bufs, Process >>

\* await this.uploadDocument(file, metadata) of request i
ConcurrentUploadDocument(i) ==
    LET r == reqs[i] IN
    /\ r.pc = "uploadDocument"
    /\ \/ /\ storageType = "local" => r.downloaded
          /\ reqs' = [reqs EXCEPT ![i] = [r EXCEPT !.documentId = "uuid",
                                                   !.pc = "processing"]]
       \/ reqs' = [reqs EXCEPT ![i] =
                SendOf([r EXCEPT !.thrown = "Failed to upload document"],
                       HandlerFailure(r.type, "Failed to upload document"))]
    /\ UNCHANGED << bufs, Process >>

\* the processing step and res.json(result) of request i
ConcurrentProcessing(i) ==
    LET r == reqs[i] IN
    /\ r.pc = "processing"
    /\ reqs' = [reqs EXCEPT ![i] =
                  SendOf(r, ResultResponse(PipelineResult(r.documentId, r.event.source)))]
    /\ UNCHANGED << bufs, Process >>

ConcurrentNext ==
    \/ \E i \in Ids : ConcurrentExpressJson(i)
    \/ \E i \in Ids : ConcurrentRawBodyData(i)
    \/ \E i \in Ids : ConcurrentRawBodyEnd(i)
    \/ \E i \in Ids : ConcurrentRouteHandler(i)
    \/ \E i \in Ids : ConcurrentAxiosGet(i)
    \/ \E i \in Ids : ConcurrentUploadDocument(i)
    \/ \E i \in Ids : ConcurrentProcessing(i)

ConcurrentSpec == ConcurrentInit /\ [][ConcurrentNext]_vars

-----------------------------------------------------------------------------
(* The integration router and IntegrationService *)

\* the variables of the webhook path
Webhook == << mounted, storageType, webhooks, pc, params_type, content_type, hasBody,
             signature, wire, stream, ended, data, rawBody, body, verified,
             webhookData, doc, res, sends, calls, delivery, redelivered, prevCalls,
             thrown, reqs, bufs >>

\* the webhook path with no request in flight
WebhookIdle ==
    /\ mounted = "app"
    /\ storageType = "local"
    /\ webhooks = [t \in {} |-> ""]
    /\ pc = "idle"
    /\ params_type = NoValue
    /\ content_type = NoValue
    /\ hasBody = FALSE
    /\ signature = NoSignature
    /\ wire = << >>
    /\ stream = << >>
    /\ ended = FALSE
    /\ data = << >>
    /\ rawBody = Undefined
    /\ body = Undefined
    /\ verified = "none"
    /\ webhookData = NoEvent
    /\ doc = NoDoc
    /\ res = NoResponse
    /\ sends = 0
    /\ calls = 0
    /\ delivery = 0
    /\ redelivered = FALSE
    /\ prevCalls = 0
    /\ thrown = NoValue
    /\ reqs = << >>
    /\ bufs = << >>

\* a request as it enters a router, req.body an object (express.json)
NewApi(router, path, b, first) ==
    [NoApi EXCEPT !.router = router, !.path = path, !.body = b, !.pc = first, !.at = 1]

\* res.status(status).json({error: {message, status}}) or res.json(result)
Reply(a, status, message, result) ==
    [a EXCEPT !.status = status, !.message = message, !.result = result,
              !.pc = "responded"]

\* variant: isEnabled without the test of standaloneMode
IsEnabledIgnoringStandalone == integration.enabled

\* IntegrationService.isEnabled()
IsEnabled == integration.enabled /\ ~integration.standaloneMode

\* the router's layers in the order they are registered: the five routes, then
\* the router.use that calls checkIntegrationEnabled
IntegrationStack ==
    << "/health", "/documents", "/templates", "/casefiles/:id", "/notifications", "use" >>

IntegrationPaths ==
    { "/health", "/documents", "/templates", "/casefiles/:id", "/notifications", "/other" }

IntegrationBodies ==
    [ {"documentId", "caseFileId", "templateId", "type"} -> {NoValue, "x"} ]

\* the message of the 400 a route answers for a falsy field, or NoValue
IntegrationRequired(path, b) ==
    CASE path = "/documents" ->
           IF ~Truthy(b.documentId) THEN "Document ID is required" ELSE NoValue
      [] path = "/templates" ->
           IF ~Truthy(b.templateId) THEN "Template ID is required"
           ELSE IF ~Truthy(b.caseFileId) THEN "Case file ID is required" ELSE NoValue
      [] path = "/notifications" ->
           IF ~Truthy(b.caseFileId) THEN "Case file ID is required"
           ELSE IF ~Truthy(b.type) THEN "Notification type is required" ELSE NoValue
      [] OTHER -> NoValue

\* the operation of IntegrationService a route calls
IntegrationOperation(path) ==
    CASE path = "/health"        -> "getHealthStatus"
      [] path = "/documents"     -> "processDocument"
      [] path = "/templates"     -> "generateTemplateDocument"
      [] path = "/casefiles/:id" -> "getCaseFileData"
      [] OTHER                   -> "sendNotification"

\* the prefix an operation puts in front of the message of a failed API call
IntegrationFailure(op) ==
    CASE op = "processDocument"          -> "Failed to integrate document: "
      [] op = "generateTemplateDocument" -> "Failed to generate template document: "
      [] op = "getCaseFileData"          -> "Failed to get case file data: "
      [] OTHER                           -> "Failed to send notification: "

IntegrationInit ==
    /\ WebhookIdle
    /\ integration \in [enabled : BOOLEAN, standaloneMode : BOOLEAN]
    /\ ai = DefaultAi
    /\ api \in { NewApi("integration", path, b, "stack") :
                    path \in IntegrationPaths, b \in IntegrationBodies }

\* the layer at hand is a route of another path: the router tries the next layer
IntegrationSkip ==
    /\ api.router = "integration"
    /\ api.pc = "stack"
    /\ api.at <= Len(IntegrationStack)
    /\ IntegrationStack[api.at] \notin {api.path, "use"}
    /\ api' = [api EXCEPT !.at = @ + 1]
    /\ UNCHANGED << integration, ai, Webhook >>

\* the layer at hand is the route of the request's path: its handler checks the
\* fields and calls the operation, which throws when the integration is not
\* enabled (getHealthStatus returns 'disabled') and otherwise calls the HR Case
\* Management API
IntegrationRoute ==
    /\ api.router = "integration"
    /\ api.pc = "stack"
    /\ api.at <= Len(IntegrationStack)
    /\ IntegrationStack[api.at] = api.path
    /\ LET required == IntegrationRequired(api.path, api.body)
           op       == IntegrationOperation(api.path)
           a        == [api EXCEPT !.validated = TRUE]
       IN
       api' = IF required # NoValue THEN Reply(a, 400, required, NoValue)
              ELSE IF ~IsEnabled
              THEN IF op = "getHealthStatus"
                   THEN Reply([a EXCEPT !.invoked = op], 200, NoValue, "disabled")
                   ELSE Reply([a EXCEPT !.invoked = op,
                                        !.thrown = "Integration is not enabled"],
                              500, "Integration is not enabled", NoValue)
              ELSE [a EXCEPT !.invoked = op, !.outbound = @ + 1, !.pc = "outbound"]
    /\ UNCHANGED << integration, ai, Webhook >>

\* the layer at hand is the router.use registered after the routes: /health goes
\* on, any other path goes through checkIntegrationEnabled
IntegrationUse ==
    /\ api.router = "integration"
    /\ api.pc = "stack"
    /\ api.at <= Len(IntegrationStack)
    /\ IntegrationStack[api.at] = "use"
    /\ api' = IF api.path = "/health" THEN [api EXCEPT !.at = @ + 1]
              ELSE IF ~IsEnabled
              THEN Reply([api EXCEPT !.gate = "blocked"], 403,
                         "Integration is not enabled", NoValue)
              ELSE [api EXCEPT !.gate = "passed", !.at = @ + 1]
    /\ UNCHANGED << integration, ai, Webhook >>

\* no layer is left: the request leaves the router and is answered 404
IntegrationNotFound ==
    /\ api.router = "integration"
    /\ api.pc = "stack"
    /\ api.at > Len(IntegrationStack)
    /\ api' = Reply(api, 404, NoValue, NoValue)
    /\ UNCHANGED << integration, ai, Webhook >>

\* the call of the HR Case Management API returns or fails
IntegrationApiReply ==
    /\ api.router = "integration"
    /\ api.pc = "outbound"
    /\ \/ api' = Reply(api, 200, NoValue,
                       IF api.invoked = "getHealthStatus" THEN "connected"
                       ELSE "response.data")
       \/ api' = IF api.invoked = "getHealthStatus"
                 THEN Reply(api, 200, NoValue, "error")
                 ELSE Reply([api EXCEPT !.thrown = "Network Error"], 500,
                            IntegrationFailure(api.invoked) \o "Network Error", NoValue)
    /\ UNCHANGED << integration, ai, Webhook >>

IntegrationNext ==
    \/ IntegrationSkip
    \/ IntegrationRoute
    \/ IntegrationUse
    \/ IntegrationNotFound
    \/ IntegrationApiReply

IntegrationSpec == IntegrationInit /\ [][IntegrationNext]_vars

-----------------------------------------------------------------------------
(* The AI router and AIService *)

\* AIService.isConfigured()
IsConfigured == ai.provider = "openai" /\ Truthy(ai.apiKey)

AiPaths ==
    { "/status", "/models", "/generate-document", "/analyze-text",
      "/extract-information", "/summarize-document", "/generate-response",
      "/classify-document" }

\* variant: /models registered without checkAiServiceConfigured, like /status
AiGatedExceptModels(path) == path \notin {"/status", "/models"}

\* the routes registered with checkAiServiceConfigured in front of the handler
AiGated(path) == path # "/status"

\* req.body: the fields the handlers check, context absent, a text or an object
AiBodies ==
    { [documentType |-> dt, context |-> cx, text |-> tx, analysisType |-> at,
       documentId |-> id, documentContent |-> dc, query |-> q] :
         dt \in {NoValue, "x"}, cx \in {NoValue, "text", "{object}"},
         tx \in {NoValue, "x"}, at \in {NoValue, "x"}, id \in {NoValue, "x"},
         dc \in {NoValue, "x"}, q \in {NoValue, "x"} }

\* the message of the 400 a handler answers, or NoValue
AiRequired(path, b) ==
    CASE path = "/generate-document" ->
           IF ~Truthy(b.documentType) THEN "Document type is required"
           ELSE IF b.context # "{object}"
           THEN "Context data is required and must be an object" ELSE NoValue
      [] path = "/analyze-text" ->
           IF ~Truthy(b.text) THEN "Text is required"
           ELSE IF ~Truthy(b.analysisType) THEN "Analysis type is required"
           ELSE NoValue
      [] path \in {"/extract-information", "/summarize-document", "/classify-document"} ->
           IF ~Truthy(b.documentId) /\ ~Truthy(b.documentContent)
           THEN "Either documentId or documentContent is required" ELSE NoValue
      [] path = "/generate-response" ->
           IF ~Truthy(b.query) THEN "Query is required" ELSE NoValue
      [] OTHER -> NoValue

\* the operation of AIService a handler calls
AiOperation(path) ==
    CASE path = "/status"              -> "getStatus"
      [] path = "/models"              -> "getModels"
      [] path = "/generate-document"   -> "generateDocument"
      [] path = "/analyze-text"        -> "analyzeText"
      [] path = "/extract-information" -> "extractInformation"
      [] path = "/summarize-document"  -> "summarizeDocument"
      [] path = "/generate-response"   -> "generateResponse"
      [] OTHER                         -> "classifyDocument"

\* the prefix an operation puts in front of the message of a failed provider call
AiFailure(op) ==
    CASE op = "getModels"          -> "Failed to get AI models: "
      [] op = "generateDocument"   -> "Failed to generate document: "
      [] op = "analyzeText"        -> "Failed to analyze text: "
      [] op = "extractInformation" -> "Failed to extract information: "
      [] op = "summarizeDocument"  -> "Failed to summarize document: "
      [] op = "generateResponse"   -> "Failed to generate response: "
      [] OTHER                     -> "Failed to classify document: "

AiInit ==
    /\ WebhookIdle
    /\ integration = DefaultIntegration
    /\ ai \in [provider : {"openai", "azure"}, apiKey : {"", "sk"}]
    /\ api \in { NewApi("ai", path, b, IF AiGated(path) THEN "gate" ELSE "handler") :
                    path \in AiPaths, b \in AiBodies }

\* checkAiServiceConfigured: 503, or next()
CheckAiServiceConfigured ==
    /\ api.router = "ai"
    /\ api.pc = "gate"
    /\ api' = IF ~IsConfigured
              THEN Reply([api EXCEPT !.gate = "blocked"], 503,
                         "AI service is not properly configured", NoValue)
              ELSE [api EXCEPT !.gate = "passed", !.pc = "handler"]
    /\ UNCHANGED << integration, ai, Webhook >>

\* a route handler: it checks the fields and calls the operation, which tests
\* isConfigured itself (getStatus returns 'not_configured', the others throw)
\* and then calls the provider
AiRoute ==
    /\ api.router = "ai"
    /\ api.pc = "handler"
    /\ LET required == AiRequired(api.path, api.body)
           op       == AiOperation(api.path)
           a        == [api EXCEPT !.validated = TRUE]
       IN
       api' = IF required # NoValue THEN Reply(a, 400, required, NoValue)
              ELSE IF ~IsConfigured
              THEN IF op = "getStatus"
                   THEN Reply([a EXCEPT !.invoked = op], 200, NoValue, "not_configured")
                   ELSE Reply([a EXCEPT !.invoked = op,
                                        !.thrown = "AI service is not properly configured"],
                              500, "AI service is not properly configured", NoValue)
              ELSE [a EXCEPT !.invoked = op, !.outbound = @ + 1, !.pc = "outbound"]
    /\ UNCHANGED << integration, ai, Webhook >>

\* the call of the provider returns or fails
AiProviderReply ==
    /\ api.router = "ai"
    /\ api.pc = "outbound"
    /\ \/ api' = Reply(api, 200, NoValue,
                       IF api.invoked = "getStatus" THEN "operational"
                       ELSE "response.data")
       \/ api' = IF api.invoked = "getStatus"
                 THEN Reply(api, 200, NoValue, "error")
                 ELSE Reply([api EXCEPT !.thrown = "Network Error"], 500,
                            AiFailure(api.invoked) \o "Network Error", NoValue)
    /\ UNCHANGED << integration, ai, Webhook >>

AiNext ==
    \/ CheckAiServiceConfigured
    \/ AiRoute
    \/ AiProviderReply

AiSpec == AiInit /\ [][AiNext]_vars

-----------------------------------------------------------------------------
(* The document router and the operations of DocumentService *)

\* the longest array or text of a request body
MaxItems == 2

DocumentPaths ==
    { "/parse", "/validate", "/convert", "/merge", "/split", "/extract-text",
      "/redact", "/compare", "/preview", "/ocr", "/sign", "/verify-signature" }

\* a member of req.body that the handler tests as a list: absent, a text or an
\* array, with its length
Absent == [t |-> "undefined", n |-> 0]

ListValues == {Absent} \cup [t : {"string", "array"}, n : 0..MaxItems]

\* !v of JavaScript, negated: undefined and the empty text are falsy, every
\* array is truthy
TruthyValue(v) == v.t # "undefined" /\ ~(v.t = "string" /\ v.n = 0)

\* Array.isArray(v)
IsArray(v) == v.t = "array"

\* req.body as the host's JSON parser leaves it: an object, with the members
\* the handlers read
DocumentBodies ==
    { [documentId |-> id, targetFormat |-> tf, schema |-> sc, signatureData |-> sd,
       documentId1 |-> d1, documentId2 |-> d2, documentIds |-> ids, patterns |-> ps] :
         id \in {NoValue, "", "x"}, tf \in {NoValue, "x"}, sc \in {NoValue, "x"},
         sd \in {NoValue, "x"}, d1 \in {NoValue, "x"}, d2 \in {NoValue, "x"},
         ids \in ListValues, ps \in ListValues }

\* variant: /merge accepts any array of document ids
DocumentRequiredAnyArray(path, b) ==
    CASE path = "/merge" ->
           IF ~TruthyValue(b.documentIds) \/ ~IsArray(b.documentIds)
           THEN "At least two document IDs are required" ELSE NoValue
      [] path = "/compare" ->
           IF ~Truthy(b.documentId1) \/ ~Truthy(b.documentId2)
           THEN "Both document IDs are required" ELSE NoValue
      [] OTHER ->
           IF ~Truthy(b.documentId) THEN "Document ID is required"
           ELSE IF path = "/validate" /\ ~Truthy(b.schema)
           THEN "Validation schema is required"
           ELSE IF path = "/convert" /\ ~Truthy(b.targetFormat)
           THEN "Target format is required"
           ELSE IF path = "/redact"
                   /\ (~TruthyValue(b.patterns) \/ ~IsArray(b.patterns)
                          \/ b.patterns.n = 0)
           THEN "At least one redaction pattern is required"
           ELSE IF path = "/sign" /\ ~Truthy(b.signatureData)
           THEN "Signature data is required"
           ELSE NoValue

\* the message of the 400 a handler answers, or NoValue
DocumentRequired(path, b) ==
    CASE path = "/merge" ->
           IF ~TruthyValue(b.documentIds) \/ ~IsArray(b.documentIds)
                 \/ b.documentIds.n < 2
           THEN "At least two document IDs are required" ELSE NoValue
      [] path = "/compare" ->
           IF ~Truthy(b.documentId1) \/ ~Truthy(b.documentId2)
           THEN "Both document IDs are required" ELSE NoValue
      [] OTHER ->
           IF ~Truthy(b.documentId) THEN "Document ID is required"
           ELSE IF path = "/validate" /\ ~Truthy(b.schema)
           THEN "Validation schema is required"
           ELSE IF path = "/convert" /\ ~Truthy(b.targetFormat)
           THEN "Target format is required"
           ELSE IF path = "/redact"
                   /\ (~TruthyValue(b.patterns) \/ ~IsArray(b.patterns)
                          \/ b.patterns.n = 0)
           THEN "At least one redaction pattern is required"
           ELSE IF path = "/sign" /\ ~Truthy(b.signatureData)
           THEN "Signature data is required"
           ELSE NoValue

\* the operation of DocumentService a handler calls
DocumentOperation(path) ==
    CASE path = "/parse"        -> "parseDocument"
      [] path = "/validate"     -> "validateDocument"
      [] path = "/convert"      -> "convertDocument"
      [] path = "/merge"        -> "mergeDocuments"
      [] path = "/split"        -> "splitDocument"
      [] path = "/extract-text" -> "extractText"
      [] path = "/redact"       -> "redactDocument"
      [] path = "/compare"      -> "compareDocuments"
      [] path = "/preview"      -> "generatePreview"
      [] path = "/ocr"          -> "processOcr"
      [] path = "/sign"         -> "signDocument"
      [] OTHER                  -> "verifySignature"

DocumentInit ==
    /\ WebhookIdle
    /\ integration = DefaultIntegration
    /\ ai = DefaultAi
    /\ api \in { NewApi("documents", path, b, "handler") :
                    path \in DocumentPaths, b \in DocumentBodies }

\* a route handler up to its call of the service: 400 for a field it requires,
\* or the call
DocumentRoute ==
    /\ api.router = "documents"
    /\ api.pc = "handler"
    /\ LET required == DocumentRequired(api.path, api.body)
           a        == [api EXCEPT !.validated = TRUE]
       IN
       api' = IF required # NoValue THEN Reply(a, 400, required, NoValue)
              ELSE [a EXCEPT !.invoked = DocumentOperation(api.path), !.pc = "service"]
    /\ UNCHANGED << integration, ai, Webhook >>

\* the operation returns its result (none of them can fail) and the handler
\* sends it
DocumentServiceReturn ==
    /\ api.router = "documents"
    /\ api.pc = "service"
    /\ api' = Reply(api, 200, NoValue, api.invoked)
    /\ UNCHANGED << integration, ai, Webhook >>

DocumentNext ==
    \/ DocumentRoute
    \/ DocumentServiceReturn

DocumentSpec == DocumentInit /\ [][DocumentNext]_vars

-----------------------------------------------------------------------------
(* Properties *)

\* the secret configured for the source type of the request in flight
webhookSecret == SecretOf(webhooks, params_type)

\* the request in flight reached the signature step of processWebhook
Checked == verified # "none"

\* C1: a request whose x-webhook-signature is the hex HMAC-SHA256, under the
\* configured secret, of its raw body as sent passes verification and is not
\* answered 401.
C1_SignatureAcceptance ==
    (Checked /\ Truthy(webhookSecret) /\ signature = HmacHex(webhookSecret, wire))
        => (verified = "passed" /\ res.status # 401)

\* C2: with a secret configured, a request that carries the digest of another
\* raw body than its own fails verification and is answered 401.
C2_TamperRejected ==
    (Checked /\ Truthy(webhookSecret) /\ signature.t = "hmac"
        /\ signature.key = webhookSecret /\ signature.msg # wire)
        => (verified = "failed" /\ res.status = 401)

\* C3: with no secret configured for the request's source type, verification is
\* skipped whatever the signature header holds, and the request is never
\* answered 401.
C3_MissingSecretBypass ==
    webhookSecret = NoValue
        => (verified \in {"none", "skipped"} /\ res.status # 401)

C3_Witness ==
    /\ webhookSecret = NoValue
    /\ signature # NoSignature
    /\ verified = "skipped"
    /\ pc = "responded"

\* C4: with a secret configured and the header absent or different from the
\* digest of the raw body, the response is 401 'Invalid webhook signature',
\* whatever the source type and the body.
C4_InvalidSignatureOutcome ==
    (pc = "responded" /\ Truthy(webhookSecret)
        /\ signature # HmacHex(webhookSecret, wire))
        => (res.status = 401 /\ res.message = "Invalid webhook signature")

\* C5: with a secret configured, a signature whose length differs from the
\* digest's makes verification answer false: the response is 401, never 500.
C5_LengthMismatchIsMismatch ==
    (Checked /\ Truthy(webhookSecret) /\ signature.t # "absent"
        /\ signature.len # DigestHexLen)
        => (verified = "failed" /\ res.status = 401)

C5_Witness ==
    /\ pc = "responded"
    /\ Truthy(webhookSecret)
    /\ signature = ShortSignature
    /\ res.status = 401

\* C7: a request whose signature step passed or was skipped and whose source type
\* is none of 'email', 'scanner', 'external' is answered 400 'Unsupported webhook
\* type: <type>'; no event is built and the pipeline is not called.
C7_UnsupportedSourceType ==
    (verified \in {"passed", "skipped"} /\ params_type \notin SupportedTypes)
        => /\ pc = "responded"
           /\ res = ErrorResponse(400, "Unsupported webhook type: " \o params_type, 400)
           /\ webhookData = NoEvent
           /\ calls = 0

C7_Witness ==
    /\ pc = "responded"
    /\ params_type = "fax"
    /\ verified = "passed"
    /\ res.status = 400

\* C8: the pipeline is called for a request only after its signature step passed
\* or was skipped and its source type was recognised; a request answered 401 or
\* 400 made no call.
C8_NoCallForRejected ==
    /\ calls > 0 => (verified \in {"passed", "skipped"} /\ params_type \in SupportedTypes)
    /\ res.status \in {400, 401} => calls = 0

C8_Witness ==
    /\ pc = "responded"
    /\ res.status = 401
    /\ params_type \in SupportedTypes
    /\ body.t = "object"
    /\ calls = 0

\* C9 as stated: every request that passed (or skipped) verification and has a
\* recognised source type produced exactly one event and one pipeline call.
C9_ExactlyOnceAsStated ==
    (verified \in {"passed", "skipped"} /\ params_type \in SupportedTypes)
        => (calls = 1 /\ webhookData # NoEvent)

\* C9 (amended): every request that passed (or skipped) verification, has a
\* recognised source type and whose req.body is an object produced exactly one
\* event, the one its normalizer builds, and exactly one pipeline call with it; no
\* request makes a second call, whatever the pipeline answers; and a redelivered
\* identical request is dispatched as its original was.
C9_ExactlyOnce ==
    /\ (verified \in {"passed", "skipped"} /\ params_type \in SupportedTypes
            /\ Readable(body))
          => (calls = 1 /\ webhookData = WebhookDataOf(HandlerOf(params_type), body))
    /\ calls <= 1
    /\ (redelivered /\ pc = "responded") => calls = prevCalls

C9_Witness ==
    /\ redelivered
    /\ pc = "responded"
    /\ res.status = 500
    /\ prevCalls = 1
    /\ calls = 1

\* C10: every request in flight can take a next step until it is answered, so
\* every request whose body was sent reaches a response.
C10_EveryRequestTerminates ==
    pc \in {"idle", "responded"} \/ ENABLED Handle

\* C10 as a temporal property: a request that arrived is eventually answered.
C10_EventuallyAnswered == (pc # "idle") ~> (pc = "responded")

-----------------------------------------------------------------------------
(* Errors and responses *)

\* msg is text, or text behind the prefixes the handler and the pipeline put in
\* front of the message of an error they rethrow
Carries(msg, text) ==
    \E label \in {"email", "scanner", "external system"} :
        msg \in { text,
                  "Failed to handle " \o label \o " webhook: " \o text,
                  "Failed to handle " \o label
                      \o " webhook: Failed to process webhook document: " \o text }

\* C11: an error thrown while the body is parsed and normalized, or by the
\* downstream pipeline, ends the request with one response, HTTP 500, whose
\* message carries the text of that error; the pipeline has been called at most
\* once (no retry) and no step of the request is left to run
C11_ErrorContainment ==
    thrown # NoValue =>
        /\ pc = "responded"
        /\ res.status = 500
        /\ res.errorStatus = 500
        /\ Carries(res.message, thrown)
        /\ sends = 1
        /\ calls <= 1

C11_Witness ==
    /\ pc = "responded"
    /\ thrown = "Failed to upload document"
    /\ calls = 1
    /\ res.status = 500

\* the request in flight declares application/json and its entity is not JSON
MalformedBody == content_type = "application/json" /\ JSONparse(wire) = SyntaxError

\* C12: a request that declares application/json with a body that is not valid
\* JSON is answered 400, and the pipeline is not called (stated for the route as
\* the application mounts it, behind express.json and in front of the error
\* middleware)
C12_MalformedBodyIs400 ==
    (mounted = "app" /\ pc = "responded" /\ MalformedBody) =>
        (res.status = 400 /\ calls = 0)

C14_SuccessResponse ==
    /\ (pc = "responded" /\ doc.processing # NoValue) =>
          /\ res.status = 200
          /\ res.message = NoValue
          /\ res.result = PipelineResult(doc.documentId, webhookData.source)
    /\ res.status = 200 => (doc.processing # NoValue /\ calls = 1)

C14_Witness ==
    /\ pc = "responded"
    /\ res.status = 200
    /\ res.result.documentId = "uuid"
    /\ res.result.source = "scanner"

\* req.body of the request in flight is the value parsed from its JSON text
Parsed ==
    /\ content_type = "application/json"
    /\ body # Undefined
    /\ body = JSONparse(wire)

\* C15: the parsed body of a request exists only once the signature step of that
\* request has passed or has been skipped
C15_ParseAfterVerify == Parsed => verified \in {"passed", "skipped"}

\* the request in flight is an email webhook whose body has no first attachment
NoAttachments ==
    /\ params_type = "email"
    /\ body.t = "object"
    /\ AttachmentsOf(Prop(body, "attachments")) = << >>

\* C19: an email webhook that passed the signature step and has no attachments,
\* the list empty or absent, is normalized to an event without documentUrl and
\* documentType, and the pipeline is called once with that event: the answer is
\* not 400, and a 500 answer comes from the pipeline
C19_EmptyAttachments ==
    (NoAttachments /\ verified \in {"passed", "skipped"}) =>
        /\ calls = 1
        /\ webhookData.source = "email"
        /\ webhookData.documentUrl = NoValue
        /\ webhookData.documentType = NoValue
        /\ webhookData.metadata.filename = NoValue
        /\ res.status # 400
        /\ thrown \in {NoValue, "Failed to upload document"}

C19_Witness ==
    /\ NoAttachments
    /\ Prop(body, "attachments") = "[]"
    /\ calls = 1
    /\ webhookData.documentUrl = NoValue

-----------------------------------------------------------------------------
(* The events the handlers build (HandlerSpec) *)

\* a handler has built webhookData from body and called the pipeline
Called(type) == pc = "processWebhookDocument" /\ params_type = type

\* C16: the event of an email body has source 'email', documentUrl, documentType
\* and metadata.filename from the first element of attachments and from no other,
\* and metadata.sender, subject, receivedAt, emailId from the body's fields of
\* those names
C16_EmailNormalization ==
    Called("email") =>
        LET list == AttachmentsOf(Prop(body, "attachments")) IN
        /\ webhookData.source = "email"
        /\ webhookData.documentUrl =
              (IF list = << >> THEN NoValue ELSE Head(list).url)
        /\ webhookData.documentType =
              (IF list = << >> THEN NoValue ELSE Head(list).contentType)
        /\ webhookData.metadata =
              [filename   |-> IF list = << >> THEN NoValue ELSE Head(list).filename,
               sender     |-> Prop(body, "sender"),
               subject    |-> Prop(body, "subject"),
               receivedAt |-> Prop(body, "receivedAt"),
               emailId    |-> Prop(body, "emailId")]

C16_Witness ==
    /\ Called("email")
    /\ Prop(body, "attachments") = "[attachment2,attachment]"
    /\ Prop(body, "sender") = "sender-value"
    /\ webhookData.documentUrl = "u2"
    /\ webhookData.metadata.sender = "sender-value"

\* what the scanner handler copies: documentUrl and the five metadata fields
ScannerCopies ==
    /\ webhookData.source = "scanner"
    /\ webhookData.documentUrl = Prop(body, "documentUrl")
    /\ webhookData.metadata =
          [filename   |-> Prop(body, "filename"),
           scannedBy  |-> Prop(body, "scannedBy"),
           scannedAt  |-> Prop(body, "scannedAt"),
           deviceId   |-> Prop(body, "deviceId"),
           resolution |-> Prop(body, "resolution")]

\* C17 as stated: the scanner event's documentType is the body's documentType
\* when the body has one, and is 'application/pdf' exactly when the body has none
C17_ScannerDefaultAsStated ==
    Called("scanner") =>
        /\ Prop(body, "documentType") # NoValue =>
              webhookData.documentType = Prop(body, "documentType")
        /\ webhookData.documentType = "application/pdf" <=>
              Prop(body, "documentType") = NoValue
        /\ ScannerCopies

\* C17: the scanner event's documentType is the body's documentType when that is
\* a non-empty text, and 'application/pdf' when it is absent or empty; the other
\* fields are copied unchanged
C17_ScannerDefault ==
    Called("scanner") =>
        /\ webhookData.documentType =
              (IF Prop(body, "documentType") \in {NoValue, ""}
               THEN "application/pdf" ELSE Prop(body, "documentType"))
        /\ ScannerCopies

C17_Witness ==
    /\ Called("scanner")
    /\ Prop(body, "documentType") = ""
    /\ webhookData.documentType = "application/pdf"
    /\ webhookData.metadata.resolution = "resolution-value"

\* what the external handler copies: documentUrl, documentType without a default,
\* and the six metadata fields
ExternalCopies ==
    /\ webhookData.documentUrl = Prop(body, "documentUrl")
    /\ webhookData.documentType = Prop(body, "documentType")
    /\ webhookData.metadata =
          [filename       |-> Prop(body, "filename"),
           externalId     |-> Prop(body, "externalId"),
           externalSystem |-> Prop(body, "externalSystem"),
           createdAt      |-> Prop(body, "createdAt"),
           createdBy      |-> Prop(body, "createdBy"),
           additionalData |-> Prop(body, "additionalData")]

\* C18 as stated: the external event's source is the body's source when the body
\* has one and 'external' otherwise; documentType and the metadata are the body's
C18_ExternalAsStated ==
    Called("external") =>
        /\ webhookData.source =
              (IF Prop(body, "source") # NoValue
               THEN Prop(body, "source") ELSE "external")
        /\ ExternalCopies

\* C18: the external event's source is the body's source when that is a non-empty
\* text and 'external' when it is absent or empty; documentType is the body's,
\* absent when the body has none, and the metadata are the body's
C18_ExternalNormalization ==
    Called("external") =>
        /\ webhookData.source =
              (IF Prop(body, "source") \in {NoValue, ""}
               THEN "external" ELSE Prop(body, "source"))
        /\ ExternalCopies

C18_Witness ==
    /\ Called("external")
    /\ Prop(body, "source") = ""
    /\ Prop(body, "documentType") = NoValue
    /\ webhookData.source = "external"
    /\ webhookData.documentType = NoValue
    /\ webhookData.metadata.additionalData = "additionalData-value"

-----------------------------------------------------------------------------
(* Requests in flight at once (ConcurrentSpec) *)

\* the response and the event of request r processed with no other request in
\* flight, given how its fetch and its upload went (r.thrown)
Alone(r) ==
    LET first  == ExpressJsonParse(r.ct, r.hb, r.wire)
        body0  == IF mounted = "app" THEN first.body ELSE Undefined
        parsed == RouteBody(r.ct, Str(r.wire), body0)
        out    == ProcessWebhook(r.type, r.sig, parsed, webhooks)
    IN
    IF mounted = "app" /\ first.kind = "respond"
    THEN [res |-> first.response, event |-> NoEvent]
    ELSE IF parsed = SyntaxError
    THEN [res |-> ErrorResponse(500, "SyntaxError", 500), event |-> NoEvent]
    ELSE IF out.kind = "respond"
    THEN [res |-> out.response, event |-> NoEvent]
    ELSE IF r.thrown # NoValue
    THEN [res |-> HandlerFailure(r.type, r.thrown), event |-> out.event]
    ELSE [res |-> ResultResponse(PipelineResult("uuid", out.event.source)),
          event |-> out.event]

\* C20: in every interleaving of the requests in flight, a request that has been
\* answered has the response and the normalized event it has when it is
\* processed alone, it has been answered once, and the text its route parsed is
\* the text it sent
C20_RequestIndependence ==
    \A i \in Ids :
        /\ reqs[i].rawBody # Undefined => reqs[i].rawBody = Str(reqs[i].wire)
        /\ reqs[i].pc = "responded" =>
              /\ reqs[i].res = Alone(reqs[i]).res
              /\ reqs[i].event = Alone(reqs[i]).event
              /\ reqs[i].sends = 1

C20_Witness ==
    /\ reqs[1].pc = "responded"
    /\ reqs[2].pc = "responded"
    /\ reqs[1].type = "scanner"
    /\ reqs[1].res.status = 200
    /\ reqs[2].type = "email"
    /\ reqs[2].thrown = "Failed to upload document"

-----------------------------------------------------------------------------
(* Configuration, branches and the pipeline (Spec) *)

\* C21: no step of any request, accepted or rejected, changes the secrets
\* configured per source: config.webhooks stays what it was at process start
C21_SecretConfigImmutable == [][webhooks' = webhooks]_vars

C21_Witness ==
    /\ delivery = 2
    /\ pc = "responded"
    /\ res.status = 401
    /\ webhooks = [t \in {"email"} |-> "s1"]

\* the processing branch that belongs to an endpoint
BranchOfType(type) ==
    CASE type = "email"   -> "parseDocument{source:email}"
      [] type = "scanner" -> "processOcr{source:scanner}"
      [] OTHER            -> "parseDocument"

\* C22: the processing branch applied to an event is the branch of the endpoint
\* the request came in on, the one whose secret was checked: an event received on
\* /external is parsed by default, whatever source its body declares
C22_BranchFollowsType ==
    doc.processing # NoValue => doc.processing = BranchOfType(params_type)

C24_ConfiguredSecretEnforces ==
    /\ (Checked /\ params_type \in DOMAIN webhooks /\ signature = NoSignature) =>
          (verified = "failed" /\ res.status = 401)
    /\ verified = "skipped" => params_type \notin DOMAIN webhooks

\* C25: within a call of processWebhookDocument the document is fetched only for
\* an event with a documentUrl, the upload follows the fetch and happens at most
\* once, the processing step follows the upload, a failed step ends the call
\* with the prefixed error and without a later step, and a success result exists
\* only for an uploaded document
C25_PipelineOrder ==
    /\ doc.uploads <= 1
    /\ doc.downloaded => Truthy(webhookData.documentUrl)
    /\ (doc.uploads = 1 /\ Truthy(webhookData.documentUrl)) => doc.downloaded
    /\ doc.processing # NoValue => doc.uploads = 1
    /\ res.status = 200 =>
          (doc.uploads = 1 /\ doc.documentId = "uuid" /\ doc.processing # NoValue)
    /\ thrown = "download" => doc.uploads = 0
    /\ thrown \in {"download", "Failed to upload document"} =>
          /\ doc.processing = NoValue
          /\ res.status = 500
          /\ \E label \in {"email", "scanner", "external system"} :
                res.message = "Failed to handle " \o label
                    \o " webhook: Failed to process webhook document: " \o thrown

C25_Witness ==
    /\ pc = "responded"
    /\ res.status = 200
    /\ doc.downloaded
    /\ doc.uploads = 1
    /\ storageType = "local"

\* C26: a successful call ran one processing operation, parseDocument with
\* {source: 'email'} for source 'email', processOcr for source 'scanner',
\* parseDocument without options for any other source, and its result has
\* success = true, the id of the uploaded document and the event's source
C26_ProcessingSelection ==
    LET expected == CASE webhookData.source = "email"   -> "parseDocument{source:email}"
                      [] webhookData.source = "scanner" -> "processOcr{source:scanner}"
                      [] OTHER                          -> "parseDocument"
    IN
    /\ doc.processing # NoValue => doc.processing = expected
    /\ res.status = 200 =>
          /\ res.result.success
          /\ res.result.documentId = doc.documentId
          /\ doc.documentId = "uuid"
          /\ res.result.source = webhookData.source
          /\ res.result.processingResult = expected
          /\ doc.processing = expected

C26_Witness ==
    /\ pc = "responded"
    /\ res.status = 200
    /\ webhookData.source = "external"
    /\ res.result.processingResult = "parseDocument"

-----------------------------------------------------------------------------
(* The integration router (IntegrationSpec) *)

\* config.integration does not enable the integration
IntegrationOff == ~(integration.enabled /\ ~integration.standaloneMode)

\* C27: while the integration is not enabled, a request to /documents,
\* /templates, /casefiles/:id or /notifications does not reach its route handler
\* and is answered 403 'Integration is not enabled'; /health is served
C27_IntegrationGate ==
    (api.router = "integration" /\ IntegrationOff) =>
        /\ api.path \in {"/documents", "/templates", "/casefiles/:id", "/notifications"} =>
              /\ ~api.validated
              /\ api.invoked = NoValue
              /\ api.pc = "responded" =>
                    (api.status = 403 /\ api.message = "Integration is not enabled")
        /\ (api.path = "/health" /\ api.pc = "responded") => api.status = 200

\* C28: isEnabled is true exactly when enabled is true and standaloneMode is
\* false; while it is false no request is sent to the HR Case Management API,
\* getHealthStatus returns status 'disabled', and processDocument,
\* generateTemplateDocument, getCaseFileData and sendNotification throw
\* 'Integration is not enabled'
C28_NoOutboundWhileDisabled ==
    api.router = "integration" =>
        /\ IsEnabled <=> (integration.enabled /\ ~integration.standaloneMode)
        /\ IntegrationOff =>
              /\ api.outbound = 0
              /\ api.invoked = "getHealthStatus" => api.result = "disabled"
              /\ api.invoked \in {"processDocument", "generateTemplateDocument",
                                  "getCaseFileData", "sendNotification"} =>
                    api.thrown = "Integration is not enabled"
        /\ api.outbound > 0 => (integration.enabled /\ ~integration.standaloneMode)

C28_Witness ==
    /\ api.router = "integration"
    /\ integration.enabled
    /\ integration.standaloneMode
    /\ api.invoked = "sendNotification"
    /\ api.thrown = "Integration is not enabled"
    /\ api.outbound = 0
    /\ api.pc = "responded"

-----------------------------------------------------------------------------
(* The AI router (AiSpec) *)

\* config.ai does not configure the service
AiOff == ~(ai.provider = "openai" /\ ai.apiKey # "")

\* C29: on every AI route but /status, while the service is not configured the
\* request is answered 503 'AI service is not properly configured', its fields
\* are not checked and the provider is not called; fields are checked and the
\* provider is called only for a request that passed the gate
C29_AiConfigurationGate ==
    (api.router = "ai" /\ api.path # "/status") =>
        /\ AiOff =>
              /\ ~api.validated
              /\ api.invoked = NoValue
              /\ api.outbound = 0
              /\ api.pc = "responded" =>
                    /\ api.status = 503
                    /\ api.message = "AI service is not properly configured"
        /\ (api.validated \/ api.invoked # NoValue \/ api.outbound > 0) =>
              api.gate = "passed"

C29_Witness ==
    /\ api.router = "ai"
    /\ api.path = "/generate-document"
    /\ ai.provider = "openai"
    /\ ai.apiKey = ""
    /\ api.body.documentType = NoValue
    /\ api.pc = "responded"
    /\ api.status = 503
    /\ api.outbound = 0

-----------------------------------------------------------------------------
(* The document router (DocumentSpec) *)

\* the body lacks a member the route requires
MissingField ==
    LET b == api.body IN
    CASE api.path = "/merge" ->
           b.documentIds.t # "array" \/ b.documentIds.n < 2
      [] api.path = "/compare" ->
           b.documentId1 = NoValue \/ b.documentId2 = NoValue
      [] OTHER ->
           \/ b.documentId = NoValue
           \/ api.path = "/convert" /\ b.targetFormat = NoValue
           \/ api.path = "/validate" /\ b.schema = NoValue
           \/ api.path = "/sign" /\ b.signatureData = NoValue
           \/ api.path = "/redact" /\ (b.patterns.t # "array" \/ b.patterns.n = 0)

====
